---- MODULE Spec2Model ----
(***************************************************************************)
(* Model of acs-lambda/create-new-session.                                 *)
(*                                                                         *)
(*   src/lambda_function.py  lambda_handler: the session manager, a        *)
(*       scan / update_item / put_item sequence against the Sessions       *)
(*       table, run by independent invocations that interleave at the      *)
(*       granularity of store calls.                                       *)
(*   src/utils.py            invoke_lambda, parse_event, authorize.        *)
(*                                                                         *)
(* The Sessions table is a sequence of items in scan order.  A scan with   *)
(* Limit = n evaluates the first n items of that order and applies the     *)
(* filter expression to the evaluated items only.  put_item replaces the   *)
(* item with the same partition key, or adds a new item at the place the   *)
(* hash of its key gives it (any position).                                *)
(***************************************************************************)
EXTENDS Integers, Sequences, FiniteSets, TLC

(* ---------------------------- bounds ----------------------------------- *)
NumProcs == 2        \* handler invocations in one run, interleaved
MaxSeqCalls == 3     \* handler invocations in one run, one at a time
MaxTicks == 1        \* clock advances in one run
TickMs == 1000       \* milliseconds in one clock advance

(* ----------------------- program constants ----------------------------- *)
MsPerSec == 1000
ScanLimit == 1
TTL_SECONDS == 30 * 24 * 3600
DefaultAuthStatus == 401

Procs == 1..NumProcs

(* ------------------------- JSON values --------------------------------- *)
JNull == [t |-> "null", v |-> ""]
JStr(s) == [t |-> "str", v |-> s]
JInt(n) == [t |-> "int", v |-> n]
JBool(b) == [t |-> "bool", v |-> b]

\* Python truthiness of a decoded JSON scalar (None when the key is absent).
Truthy(j) ==
  CASE j.t = "null" -> FALSE
    [] j.t = "str"  -> j.v # ""
    [] j.t = "int"  -> j.v # 0
    [] j.t = "bool" -> j.v

\* dict.get(key) and dict.get(key, default) on a decoded JSON object.
Get(d, key) == IF key \in DOMAIN d THEN d[key] ELSE JNull
GetOr(d, key, default) == IF key \in DOMAIN d THEN d[key] ELSE default

EmptyDict == [k \in {} |-> JNull]

(* --------------------- request events and bodies ----------------------- *)
\* The request bodies the model feeds to lambda_handler.
Bodies ==
  { "{}", "{\"uid\": \"\"}", "{\"uid\": null}", "{\"uid\": \"u1\"}",
    "{\"uid\": \"u2\"}", "{\"uid\": 7}", "[]", "not json" }

\* An event either has no 'body' key, a null body, or a string body.
Events ==
  { [has_body |-> FALSE, body |-> JNull], [has_body |-> TRUE, body |-> JNull] }
    \cup { [has_body |-> TRUE, body |-> JStr(b)] : b \in Bodies }

\* json.loads on the texts the model uses (request bodies and the inner
\* bodies of remote responses).
JsonLoads(s) ==
  CASE s = "{}"                -> [ok |-> TRUE, kind |-> "dict", dict |-> EmptyDict, err |-> ""]
    [] s = "{\"uid\": \"\"}"   -> [ok |-> TRUE, kind |-> "dict", dict |-> [uid |-> JStr("")], err |-> ""]
    [] s = "{\"uid\": null}"   -> [ok |-> TRUE, kind |-> "dict", dict |-> [uid |-> JNull], err |-> ""]
    [] s = "{\"uid\": \"u1\"}" -> [ok |-> TRUE, kind |-> "dict", dict |-> [uid |-> JStr("u1")], err |-> ""]
    [] s = "{\"uid\": \"u2\"}" -> [ok |-> TRUE, kind |-> "dict", dict |-> [uid |-> JStr("u2")], err |-> ""]
    [] s = "{\"uid\": 7}"      -> [ok |-> TRUE, kind |-> "dict", dict |-> [uid |-> JInt(7)], err |-> ""]
    [] s = "[]"                -> [ok |-> TRUE, kind |-> "list", dict |-> EmptyDict, err |-> ""]
    [] s = "{\"authorized\": true}" ->
         [ok |-> TRUE, kind |-> "dict", dict |-> [authorized |-> JBool(TRUE)], err |-> ""]
    [] s = "{\"authorized\": false}" ->
         [ok |-> TRUE, kind |-> "dict", dict |-> [authorized |-> JBool(FALSE)], err |-> ""]
    [] s = "{\"authorized\": true, \"message\": \"ok\"}" ->
         [ok |-> TRUE, kind |-> "dict",
          dict |-> [authorized |-> JBool(TRUE), message |-> JStr("ok")], err |-> ""]
    [] s = "{\"authorized\": false, \"message\": \"Session expired\"}" ->
         [ok |-> TRUE, kind |-> "dict",
          dict |-> [authorized |-> JBool(FALSE), message |-> JStr("Session expired")], err |-> ""]
    [] s = "{\"message\": \"Forbidden\"}" ->
         [ok |-> TRUE, kind |-> "dict", dict |-> [message |-> JStr("Forbidden")], err |-> ""]
    [] s = "{\"authorized\": 1}" ->
         [ok |-> TRUE, kind |-> "dict", dict |-> [authorized |-> JInt(1)], err |-> ""]
    [] s = "{\"authorized\": 0}" ->
         [ok |-> TRUE, kind |-> "dict", dict |-> [authorized |-> JInt(0)], err |-> ""]
    [] s = "{\"authorized\": \"yes\"}" ->
         [ok |-> TRUE, kind |-> "dict", dict |-> [authorized |-> JStr("yes")], err |-> ""]
    [] s = "{\"authorized\": \"\"}" ->
         [ok |-> TRUE, kind |-> "dict", dict |-> [authorized |-> JStr("")], err |-> ""]
    [] s = "{\"authorized\": null}" ->
         [ok |-> TRUE, kind |-> "dict", dict |-> [authorized |-> JNull], err |-> ""]
    [] OTHER                   -> [ok |-> FALSE, kind |-> "none", dict |-> EmptyDict,
                                   err |-> "Expecting value: line 1 column 1 (char 0)"]

\* body = json.loads(event.get('body', '{}')); uid = body.get('uid')
\* The outcome is the uid, or the text of the exception the two lines raise.
ParseBody(ev) ==
  LET text == IF ev.has_body THEN ev.body ELSE JStr("{}") IN
  IF text.t # "str"
    THEN [ok |-> FALSE, uid |-> JNull,
          err |-> "the JSON object must be str, bytes or bytearray, not NoneType"]
  ELSE LET j == JsonLoads(text.v) IN
    IF ~j.ok THEN [ok |-> FALSE, uid |-> JNull, err |-> j.err]
    ELSE IF j.kind # "dict"
      THEN [ok |-> FALSE, uid |-> JNull, err |-> "'list' object has no attribute 'get'"]
    ELSE [ok |-> TRUE, uid |-> Get(j.dict, "uid"), err |-> ""]

\* if uid is None: the empty string passes.
MissingUid_NoneOnly(uid) == uid.t = "null"

\* if not uid:
MissingUid(uid) == ~Truthy(uid)

(* --------------------------- responses --------------------------------- *)
NoResult == [statusCode |-> 0, body |-> [none |-> TRUE]]

BadRequest ==
  [statusCode |-> 400, body |-> [message |-> "Missing required fields: uid"]]

RefreshedResponse(sid) ==
  [statusCode |-> 200,
   body |-> [sessionId |-> sid, message |-> "Existing session TTL updated",
             isNewSession |-> FALSE]]

CreatedResponse(sid) ==
  [statusCode |-> 200,
   body |-> [sessionId |-> sid, message |-> "New session created successfully",
             isNewSession |-> TRUE]]

\* The 500 without the error's text.
ErrorResponse_NoText(e) ==
  [statusCode |-> 500, body |-> [message |-> "Failed to manage session"]]

ErrorResponse(e) ==
  [statusCode |-> 500, body |-> [message |-> "Failed to manage session: " \o e]]

(* ------------------------ the Sessions table --------------------------- *)
NoSession == [ts |-> -1, rnd |-> ""]
RandStrs == {"aaaaaaaa", "zzzzzzz9"}

\* f"{timestamp}-{random_str}": the pair decides the string.
SessionId(ms, r) == [ts |-> ms, rnd |-> r]

Keys(table) == { table[i].session_id : i \in 1..Len(table) }
IndexOf(table, sid) == CHOOSE i \in 1..Len(table) : table[i].session_id = sid

Min(a, b) == IF a < b THEN a ELSE b

\* scan(FilterExpression='associated_account = :uid', Limit=limit): the
\* first `limit` items are evaluated, then the filter is applied to them.
ScanItems(table, uid, limit) ==
  LET Match(it) == it.associated_account = uid IN
  SelectSeq(SubSeq(table, 1, Min(limit, Len(table))), Match)

\* A put keyed by the account: it replaces the account's item.
PutItem_KeyedByAccount(table, item) ==
  IF \E i \in 1..Len(table) : table[i].associated_account = item.associated_account
    THEN { [table EXCEPT ![CHOOSE i \in 1..Len(table) :
                             table[i].associated_account = item.associated_account] = item] }
    ELSE { SubSeq(table, 1, i) \o <<item>> \o SubSeq(table, i + 1, Len(table)) :
             i \in 0..Len(table) }

\* put_item(Item=item): the tables a put can leave behind.
PutItem(table, item) ==
  IF item.session_id \in Keys(table)
    THEN { [table EXCEPT ![IndexOf(table, item.session_id)] = item] }
    ELSE { SubSeq(table, 1, i) \o <<item>> \o SubSeq(table, i + 1, Len(table)) :
             i \in 0..Len(table) }

\* update_item(Key=sid, 'SET expiration = :ttl'): the tables an update can
\* leave behind; an update of a key the table does not hold adds an item
\* that has the key and the expiration only.
UpdateItem(table, sid, ttl) ==
  IF sid \in Keys(table)
    THEN { [table EXCEPT ![IndexOf(table, sid)].expiration = ttl] }
    ELSE PutItem(table, [session_id |-> sid, created_at |-> -1, expiration |-> ttl,
                         associated_account |-> ""])

\* ttl = now_sec + (30 * 24 * 3600)
Ttl(now_sec) == now_sec + TTL_SECONDS

NewItem(sid, created, ttl, uid) ==
  [session_id |-> sid, created_at |-> created, expiration |-> ttl,
   associated_account |-> uid]

ScanError == "An error occurred (InternalServerError) when calling the Scan operation"
UpdateError == "An error occurred (InternalServerError) when calling the UpdateItem operation"
PutError == "An error occurred (InternalServerError) when calling the PutItem operation"
ScanParamError == "Parameter validation failed: Invalid type for parameter ExpressionAttributeValues.:uid.S"
PutParamError == "Parameter validation failed: Invalid type for parameter Item.associated_account.S"

(* ----------------------------- state ----------------------------------- *)
VARIABLES
  store,       \* the Sessions table, in scan order
  clock,       \* time.time() in milliseconds
  ticks,       \* clock advances so far
  started,     \* handler invocations started so far
  pc,          \* where each invocation is: idle, scan, update, put, done, raised
  uid,         \* local uid
  now_sec,     \* local now_sec; ttl is Ttl(now_sec)
  session_id,  \* local session_id
  result,      \* what the invocation returned
  calls,       \* the store calls the invocation has issued, with their outcomes
  last,        \* uid, response and faults of the invocation that completed last
  remote,      \* utils: what the remote function call does
  upc,         \* utils: where the call of authorize is: idle, invoke, check, done
  response,    \* utils: what invoke_lambda returned
  outcome      \* utils: how authorize ended

svars == <<store, clock, ticks, started, pc, uid, now_sec, session_id, result,
           calls, last>>
uvars == <<remote, upc, response, outcome>>
vars == <<svars, uvars>>

NoCall == [uid |-> JNull, result |-> NoResult, clean |-> TRUE]

SessionInit ==
  /\ store = <<>>
  /\ clock = 0
  /\ ticks = 0
  /\ started = 0
  /\ pc = [p \in Procs |-> "idle"]
  /\ uid = [p \in Procs |-> JNull]
  /\ now_sec = [p \in Procs |-> 0]
  /\ session_id = [p \in Procs |-> NoSession]
  /\ result = [p \in Procs |-> NoResult]
  /\ calls = [p \in Procs |-> <<>>]
  /\ last = NoCall

NoRemote == [kind |-> "none", envelope |-> EmptyDict]
NoOutcome == [kind |-> "none", status |-> JNull, message |-> JNull]

UtilsIdle ==
  /\ remote = NoRemote
  /\ upc = "idle"
  /\ response = EmptyDict
  /\ outcome = NoOutcome

Init == SessionInit /\ UtilsIdle

(* ------------------------ exception handlers --------------------------- *)
\* No outer except: the exception leaves the handler.
OuterExcept_Reraise(e) == [pc |-> "raised", result |-> NoResult]

\* except Exception as e (outer, lines 154-161): the handler returns a 500.
OuterExcept(e) == [pc |-> "done", result |-> ErrorResponse(e)]

\* No inner except: the lookup's exception reaches the outer handler.
InnerExcept_Propagate(e) ==
  [pc |-> "done",
   result |-> [statusCode |-> 500,
               body |-> [message |-> "Failed to manage session: " \o e]]]

\* except Exception as e (inner, lines 129-131): logged, execution goes on
\* to the creation of a new session.
InnerExcept(e) == [pc |-> "gen", result |-> NoResult]

Call(op, how, n) == [op |-> op, outcome |-> how, items |-> n]

(* --------------------------- lambda_handler ---------------------------- *)
\* Lines 78-93: parse the body, validate uid, read the clock.  The
\* invocation takes the first free slot.  A uid that is not a string fails
\* boto3's parameter validation in the scan and in the put, before anything
\* is sent to the store: that invocation is local from end to end and is
\* one step.
Start(p, e) ==
  /\ pc[p] = "idle"
  /\ \A q \in Procs : q < p => pc[q] # "idle"
  /\ started' = started + 1
  /\ LET parsed == ParseBody(e) IN
       IF ~parsed.ok
         THEN /\ pc' = [pc EXCEPT ![p] = OuterExcept(parsed.err).pc]
              /\ result' = [result EXCEPT ![p] = OuterExcept(parsed.err).result]
              /\ calls' = [calls EXCEPT ![p] = <<>>]
              /\ UNCHANGED <<uid, now_sec>>
       ELSE IF MissingUid(parsed.uid)
         THEN /\ pc' = [pc EXCEPT ![p] = "done"]
              /\ result' = [result EXCEPT ![p] = BadRequest]
              /\ uid' = [uid EXCEPT ![p] = parsed.uid]
              /\ calls' = [calls EXCEPT ![p] = <<>>]
              /\ UNCHANGED now_sec
       ELSE IF parsed.uid.t # "str"
         THEN LET afterScan == InnerExcept(ScanParamError)
                  end == IF afterScan.pc = "gen" THEN OuterExcept(PutParamError)
                                                 ELSE afterScan
              IN  /\ pc' = [pc EXCEPT ![p] = end.pc]
                  /\ result' = [result EXCEPT ![p] = end.result]
                  /\ uid' = [uid EXCEPT ![p] = parsed.uid]
                  /\ calls' = [calls EXCEPT ![p] =
                       IF afterScan.pc = "gen"
                         THEN <<Call("scan", "error", 0), Call("put_item", "error", 0)>>
                         ELSE <<Call("scan", "error", 0)>>]
                  /\ UNCHANGED now_sec
       ELSE /\ pc' = [pc EXCEPT ![p] = "scan"]
            /\ uid' = [uid EXCEPT ![p] = parsed.uid]
            /\ now_sec' = [now_sec EXCEPT ![p] = clock \div MsPerSec]
            /\ calls' = [calls EXCEPT ![p] = <<>>]
            /\ UNCHANGED result
  /\ UNCHANGED <<store, clock, ticks, session_id, last, uvars>>

\* Any number of invocations up to the number of slots, interleaved.
Begin(p, e) == Start(p, e)

\* Lines 134 and 139: session_id = generate_session_id() (lines 10-14) and
\* the item's created_at.  Both read the clock and nothing but local
\* computation lies between them and the end of the lookup, so they are
\* part of the step that leaves the lookup, and created_at is the reading
\* that is in the id.
Generate(p) ==
  /\ \E r \in RandStrs :
       session_id' = [session_id EXCEPT ![p] = SessionId(clock, r)]
  /\ pc' = [pc EXCEPT ![p] = "put"]
  /\ UNCHANGED result

\* Where a step of the lookup leaves the invocation.
Leave(p, next) ==
  IF next.pc = "gen"
    THEN Generate(p)
    ELSE /\ pc' = [pc EXCEPT ![p] = next.pc]
         /\ result' = [result EXCEPT ![p] = next.result]
         /\ UNCHANGED session_id

\* The handler is left from inside the creation or the refresh: the
\* response is out and the locals now_sec and session_id are gone.
Finish(p, end) ==
  /\ pc' = [pc EXCEPT ![p] = end.pc]
  /\ result' = [result EXCEPT ![p] = end.result]
  /\ now_sec' = [now_sec EXCEPT ![p] = 0]
  /\ session_id' = [session_id EXCEPT ![p] = NoSession]

\* Lines 97-109: the scan; the call can fail in the store or on the way
\* to it.
Scan(p) ==
  /\ pc[p] = "scan"
  /\ \E ok \in BOOLEAN :
       IF ~ok
         THEN /\ Leave(p, InnerExcept(ScanError))
              /\ calls' = [calls EXCEPT ![p] = Append(@, Call("scan", "error", 0))]
         ELSE LET items == ScanItems(store, uid[p].v, ScanLimit) IN
              /\ calls' = [calls EXCEPT ![p] = Append(@, Call("scan", "ok", Len(items)))]
              /\ IF items # <<>>
                   THEN /\ session_id' = [session_id EXCEPT ![p] = items[1].session_id]
                        /\ pc' = [pc EXCEPT ![p] = "update"]
                        /\ UNCHANGED result
                   ELSE Generate(p)
  /\ UNCHANGED <<store, clock, ticks, started, uid, now_sec, last, uvars>>

\* Lines 111-127: update_item inside the inner try, then the 200.
Update(p) ==
  /\ pc[p] = "update"
  /\ \E ok \in BOOLEAN :
       IF ok
         THEN /\ \E t \in UpdateItem(store, session_id[p], Ttl(now_sec[p])) :
                   store' = t
              /\ calls' = [calls EXCEPT ![p] = Append(@, Call("update_item", "ok", 0))]
              /\ Finish(p, [pc |-> "done", result |-> RefreshedResponse(session_id[p])])
         ELSE /\ calls' = [calls EXCEPT ![p] = Append(@, Call("update_item", "error", 0))]
              /\ Leave(p, InnerExcept(UpdateError))
              /\ UNCHANGED <<store, now_sec>>
  /\ UNCHANGED <<clock, ticks, started, uid, last, uvars>>

\* Lines 135-152: put_item, then the 200; a failure goes to the outer except.
Put(p) ==
  /\ pc[p] = "put"
  /\ \E ok \in BOOLEAN :
       IF ~ok
         THEN /\ calls' = [calls EXCEPT ![p] = Append(@, Call("put_item", "error", 0))]
              /\ Finish(p, OuterExcept(PutError))
              /\ UNCHANGED store
         ELSE /\ \E t \in PutItem(store, NewItem(session_id[p], session_id[p].ts,
                                                Ttl(now_sec[p]), uid[p].v)) :
                   store' = t
              /\ calls' = [calls EXCEPT ![p] = Append(@, Call("put_item", "ok", 0))]
              /\ Finish(p, [pc |-> "done", result |-> CreatedResponse(session_id[p])])
  /\ UNCHANGED <<clock, ticks, started, uid, last, uvars>>

\* The caller takes the response and keeps it for the next call; the
\* invocation's locals are gone.
Return(p) ==
  /\ pc[p] = "done"
  /\ pc' = [pc EXCEPT ![p] = "idle"]
  /\ uid' = [uid EXCEPT ![p] = JNull]
  /\ now_sec' = [now_sec EXCEPT ![p] = 0]
  /\ session_id' = [session_id EXCEPT ![p] = NoSession]
  /\ result' = [result EXCEPT ![p] = NoResult]
  /\ calls' = [calls EXCEPT ![p] = <<>>]
  /\ last' = [uid |-> uid[p], result |-> result[p],
               clean |-> \A i \in 1..Len(calls[p]) : calls[p][i].outcome = "ok"]
  /\ UNCHANGED <<store, clock, ticks, started, uvars>>


\* time.time() moves on.
Tick ==
  /\ ticks < MaxTicks
  /\ ticks' = ticks + 1
  /\ clock' = clock + TickMs
  /\ UNCHANGED <<store, started, pc, uid, now_sec, session_id, result, calls,
                 last, uvars>>

\* Invocations interleave at the granularity of store calls.
Next ==
  \/ \E p \in Procs : \E e \in Events : Begin(p, e)
  \/ \E p \in Procs : Scan(p)
  \/ \E p \in Procs : Update(p)
  \/ \E p \in Procs : Put(p)
  \/ Tick

Spec == Init /\ [][Next]_vars

\* Invocations run strictly one at a time.
SeqBegin(p, e) ==
  /\ \A q \in Procs : pc[q] = "idle"
  /\ started < MaxSeqCalls
  /\ Start(p, e)

SeqNext ==
  \/ \E p \in Procs : \E e \in Events : SeqBegin(p, e)
  \/ \E p \in Procs : Scan(p)
  \/ \E p \in Procs : Update(p)
  \/ \E p \in Procs : Put(p)
  \/ \E p \in Procs : Return(p)
  \/ Tick

SeqSpec == Init /\ [][SeqNext]_vars

TypeOK ==
  /\ \A p \in Procs : pc[p] \in {"idle", "scan", "update", "put", "done", "raised"}
  /\ Len(store) <= MaxSeqCalls + NumProcs

(* ------------------------------ utils.py ------------------------------- *)
UnauthorizedMessage == "ACS: Unauthorized"

\* The inner bodies the Authorize function answers with.
AuthBodies ==
  { "{}", "{\"authorized\": true}", "{\"authorized\": false}",
    "{\"authorized\": true, \"message\": \"ok\"}",
    "{\"authorized\": false, \"message\": \"Session expired\"}",
    "{\"message\": \"Forbidden\"}", "{\"authorized\": 1}", "{\"authorized\": 0}",
    "{\"authorized\": \"yes\"}", "{\"authorized\": \"\"}", "{\"authorized\": null}",
    "[]", "not json" }

StatusCodes == { JInt(200), JInt(401), JInt(403), JInt(500), JStr("200"), JNull }

\* The response envelopes: statusCode and body, each present or not.
Envelopes ==
  { [statusCode |-> c, body |-> JStr(b)] : c \in StatusCodes, b \in AuthBodies }
    \cup { [statusCode |-> c] : c \in StatusCodes }
    \cup { [body |-> JStr(b)] : b \in AuthBodies }
    \cup { EmptyDict }

\* What a call of invoke_lambda can meet: a payload json.dumps cannot
\* serialize, a failure in the transport (ClientError), any other exception
\* while calling or reading (a timeout, bytes that are not UTF-8), an empty
\* payload, a payload that is not JSON, or an envelope.
Remotes ==
  { [kind |-> k, envelope |-> EmptyDict] :
      k \in {"unserializable", "client_error", "unexpected", "empty", "not_json"} }
    \cup { [kind |-> "envelope", envelope |-> e] : e \in Envelopes }

\* The two functions the wrappers call.
FunctionNames == {"ParseEvent", "Authorize"}

LambdaError(status, message) ==
  [kind |-> "LambdaError", status |-> status, message |-> message]

\* class AuthorizationError(Exception) (lines 23-25): declared for
\* authorization failures; no statement of the module raises it.
AuthorizationErrorKind == "AuthorizationError"

Raised(kind) == [kind |-> kind, status |-> JNull, message |-> JNull]
Returned == [kind |-> "returned", status |-> JNull, message |-> JNull]

\* except ClientError (lines 57-59)
ClientErrorRaised(function_name) ==
  LambdaError(JInt(500),
              JStr("Failed to invoke " \o function_name \o " due to a client error."))

\* The decoder's exception is let through.
InvalidJsonRaised_Through(function_name) == Raised("JSONDecodeError")

\* except json.JSONDecodeError (lines 60-62)
InvalidJsonRaised(function_name) ==
  LambdaError(JInt(500), JStr("Invalid JSON response from " \o function_name \o "."))

\* No catch-all: the exception is let through.
UnexpectedRaised_Through(function_name) == Raised("Exception")

\* except Exception (lines 63-65)
UnexpectedRaised(function_name) ==
  LambdaError(JInt(500), JStr("An unexpected error occurred during Lambda invocation."))

\* invoke_lambda(function_name, payload): the decoded response, or the
\* LambdaError the three except clauses raise.
InvokeLambda(function_name, r) ==
  CASE r.kind = "client_error" ->
         [ok |-> FALSE, value |-> EmptyDict, error |-> ClientErrorRaised(function_name)]
    [] r.kind = "not_json" ->
         [ok |-> FALSE, value |-> EmptyDict, error |-> InvalidJsonRaised(function_name)]
    [] r.kind \in {"unserializable", "unexpected"} ->
         [ok |-> FALSE, value |-> EmptyDict, error |-> UnexpectedRaised(function_name)]
    [] r.kind = "empty" -> [ok |-> TRUE, value |-> EmptyDict, error |-> NoOutcome]
    [] OTHER -> [ok |-> TRUE, value |-> r.envelope, error |-> NoOutcome]

\* response.get('statusCode') != 200 and, with `and` for `or`, the denial test.
AuthDenied_And(resp, body) ==
  Get(resp, "statusCode") # JInt(200) /\ ~Truthy(Get(body, "authorized"))

\* response.get('statusCode') != 200 or not body.get('authorized')
AuthDenied(resp, body) ==
  Get(resp, "statusCode") # JInt(200) \/ ~Truthy(Get(body, "authorized"))

\* Lines 82-85 of authorize.
AuthorizeCheck(resp) ==
  LET j == JsonLoads(GetOr(resp, "body", JStr("{}")).v) IN
  IF ~j.ok THEN Raised("JSONDecodeError")
  ELSE IF j.kind # "dict" THEN Raised("AttributeError")
  ELSE IF AuthDenied(resp, j.dict)
    THEN LambdaError(GetOr(resp, "statusCode", JInt(DefaultAuthStatus)),
                     GetOr(j.dict, "message", JStr(UnauthorizedMessage)))
  ELSE Returned

\* Line 81: response = invoke_lambda('Authorize', ...)
AuthInvoke ==
  /\ upc = "invoke"
  /\ LET r == InvokeLambda("Authorize", remote) IN
       IF r.ok
         THEN /\ response' = r.value
              /\ upc' = "check"
              /\ UNCHANGED outcome
         ELSE /\ outcome' = r.error
              /\ upc' = "done"
              /\ UNCHANGED response
  /\ UNCHANGED <<remote, svars>>

\* Lines 82-85: decode the body, raise unless authorized.
AuthCheck ==
  /\ upc = "check"
  /\ outcome' = AuthorizeCheck(response)
  /\ upc' = "done"
  /\ UNCHANGED <<remote, response, svars>>

AuthInit ==
  /\ SessionInit
  /\ remote \in Remotes
  /\ upc = "invoke"
  /\ response = EmptyDict
  /\ outcome = NoOutcome

AuthNext == AuthInvoke \/ AuthCheck

AuthSpec == AuthInit /\ [][AuthNext]_vars

\* What parse_event returns: the decoded inner body.
ReturnedValue(j) == [kind |-> "returned", status |-> JNull, message |-> JNull, value |-> j]

\* Lines 72-75 of parse_event.
ParseEventCheck(resp) ==
  IF Get(resp, "statusCode") # JInt(200)
    THEN LambdaError(GetOr(resp, "statusCode", JInt(500)), JStr("Failed to parse event."))
  ELSE LET j == JsonLoads(GetOr(resp, "body", JStr("{}")).v) IN
    IF ~j.ok THEN Raised("JSONDecodeError")
    ELSE ReturnedValue([kind |-> j.kind, dict |-> j.dict])

\* Line 71: response = invoke_lambda('ParseEvent', event)
ParseInvoke ==
  /\ upc = "parse_invoke"
  /\ LET r == InvokeLambda("ParseEvent", remote) IN
       IF r.ok
         THEN /\ response' = r.value
              /\ upc' = "parse_check"
              /\ UNCHANGED outcome
         ELSE /\ outcome' = r.error
              /\ upc' = "parse_done"
              /\ UNCHANGED response
  /\ UNCHANGED <<remote, svars>>

\* Lines 72-75: test the status, decode the body.
ParseCheck ==
  /\ upc = "parse_check"
  /\ outcome' = ParseEventCheck(response)
  /\ upc' = "parse_done"
  /\ UNCHANGED <<remote, response, svars>>

\* One call of either wrapper, against anything the remote call can do.
UtilsInit ==
  /\ SessionInit
  /\ remote \in Remotes
  /\ upc \in {"invoke", "parse_invoke"}
  /\ response = EmptyDict
  /\ outcome = NoOutcome

UtilsNext == AuthInvoke \/ AuthCheck \/ ParseInvoke \/ ParseCheck

UtilsSpec == UtilsInit /\ [][UtilsNext]_vars

(* ======================= properties of lambda_handler =================== *)
Failed(cs, op) == \E i \in 1..Len(cs) : cs[i].op = op /\ cs[i].outcome = "error"
Issued(cs, op) == \E i \in 1..Len(cs) : cs[i].op = op
FaultFree(cs) == \A i \in 1..Len(cs) : cs[i].outcome = "ok"
Running(p) == pc[p] \in {"scan", "update", "put"}

\* Events whose body is a JSON object with no uid, or with the empty uid.
NoUidEvents ==
  { [has_body |-> FALSE, body |-> JNull], [has_body |-> TRUE, body |-> JStr("{}")],
    [has_body |-> TRUE, body |-> JStr("{\"uid\": \"\"}")] }

\* C1: a request whose body has no uid, or the empty string as uid, is
\* answered 400 with the message 'Missing required fields: uid'; its
\* invocation issues no scan, update or put, and the table is as before.
C1_MissingUid400 ==
  [][\A p \in Procs : \A e \in NoUidEvents :
       Begin(p, e) =>
         /\ pc'[p] = "done"
         /\ result'[p].statusCode = 400
         /\ result'[p].body = [message |-> "Missing required fields: uid"]
         /\ calls'[p] = <<>>
         /\ store' = store]_vars

C1_Witness ==
  \E p \in Procs :
    /\ pc[p] = "done"
    /\ uid[p] = JStr("")
    /\ result[p].statusCode = 400
    /\ calls[p] = <<>>
    /\ store # <<>>

\* C2: in a run of invocations one at a time, a call for the uid of the call
\* that completed just before it with a 200 returns that call's sessionId,
\* with isNewSession false.  Stated for the case most favourable to the
\* claim, in which no store call of either invocation fails and a generated
\* id is not a key of the table.
C2_RepeatSameSession ==
  [][\A p \in Procs :
       (/\ Running(p) /\ pc'[p] = "done"
        /\ FaultFree(calls'[p])
        /\ pc[p] = "put" => session_id[p] \notin Keys(store)
        /\ last.clean
        /\ last.result.statusCode = 200
        /\ last.uid = uid[p]) =>
         /\ result'[p].statusCode = 200
         /\ result'[p].body.sessionId = last.result.body.sessionId
         /\ result'[p].body.isNewSession = FALSE]_vars

\* The sessions of an account in a table.
SessionsOf(table, u) ==
  { table[i].session_id : i \in { j \in 1..Len(table) : table[j].associated_account = u } }

\* C3: in a run of invocations one at a time, a call for a uid that has a
\* session S1 in the table returns 200 with sessionId S1, isNewSession false
\* and 'Existing session TTL updated'; S1's expiration is now + 2,592,000,
\* its created_at and account are as before, and the table has no more
\* items than before.  Stated for the case most favourable to the claim, in
\* which no store call fails and a generated id is not a key of the table.
C3_RefreshExisting ==
  [][\A p \in Procs :
       (/\ Running(p) /\ pc'[p] = "done"
        /\ FaultFree(calls'[p])
        /\ pc[p] = "put" => session_id[p] \notin Keys(store)
        /\ SessionsOf(store, uid[p].v) # {}) =>
         /\ result'[p].statusCode = 200
         /\ result'[p].body.isNewSession = FALSE
         /\ result'[p].body.message = "Existing session TTL updated"
         /\ result'[p].body.sessionId \in SessionsOf(store, uid[p].v)
         /\ Len(store') = Len(store)
         /\ \A i \in 1..Len(store) :
              /\ store'[i].session_id = store[i].session_id
              /\ store'[i].created_at = store[i].created_at
              /\ store'[i].associated_account = store[i].associated_account
              /\ store[i].session_id = result'[p].body.sessionId =>
                   store'[i].expiration = now_sec[p] + 2592000]_vars

\* C4: when the scan returns no session for a non-empty uid and the put
\* succeeds, the put adds exactly one item to the table, with the uid as
\* account and now + 2,592,000 as expiration, and the call returns 200 with
\* isNewSession true, 'New session created successfully' and the key of the
\* added item as sessionId.
C4_CreateAddsOne ==
  [][\A p \in Procs :
       (/\ pc[p] = "put" /\ pc'[p] = "done"
        /\ calls[p] = <<[op |-> "scan", outcome |-> "ok", items |-> 0]>>
        /\ ~Failed(calls'[p], "put_item")) =>
         /\ result'[p].statusCode = 200
         /\ result'[p].body.isNewSession = TRUE
         /\ result'[p].body.message = "New session created successfully"
         /\ Len(store') = Len(store) + 1
         /\ \E i \in 1..Len(store') :
              /\ store'[i].session_id = result'[p].body.sessionId
              /\ store'[i].associated_account = uid[p].v
              /\ store'[i].expiration = now_sec[p] + 2592000
              /\ \A j \in 1..Len(store) :
                   store[j] = store'[IF j < i THEN j ELSE j + 1]]_vars

\* C5 as stated: whenever the scan throws, the call returns 200 with
\* isNewSession true and 'New session created successfully'.
C5_ScanFailureAlways200 ==
  \A p \in Procs :
    (pc[p] = "done" /\ Failed(calls[p], "scan")) =>
      /\ result[p].statusCode = 200
      /\ result[p].body.isNewSession = TRUE
      /\ result[p].body.message = "New session created successfully"

\* C5 as amended: when the scan throws, the invocation goes on to the
\* creation of a session; it returns the 200 of a new session when the put
\* succeeds and a 500 with the put's error when the put fails, and in no case
\* the scan's error.
C5_ScanFailureFallsThrough ==
  \A p \in Procs :
    Failed(calls[p], "scan") =>
      /\ pc[p] \in {"put", "done"}
      /\ ~Issued(calls[p], "update_item")
      /\ pc[p] = "done" =>
           /\ Issued(calls[p], "put_item")
           /\ ~Failed(calls[p], "put_item") =>
                /\ result[p].statusCode = 200
                /\ DOMAIN result[p].body = {"sessionId", "message", "isNewSession"}
                /\ result[p].body.message = "New session created successfully"
                /\ result[p].body.isNewSession = TRUE
                /\ result[p].body.sessionId.rnd \in RandStrs
                /\ result[p].body.sessionId.ts <= clock
           /\ Failed(calls[p], "put_item") =>
                /\ result[p].statusCode = 500
                /\ result[p].body.message \in
                     { "Failed to manage session: " \o PutError,
                       "Failed to manage session: " \o PutParamError }

C5_Witness ==
  \E p \in Procs :
    /\ pc[p] = "done"
    /\ Failed(calls[p], "scan")
    /\ result[p].statusCode = 200
    /\ result[p].body.isNewSession = TRUE
    /\ SessionsOf(store, uid[p].v) = {result[p].body.sessionId}

\* C6: when the scan finds a session and the update of its expiration
\* fails, the call returns 500 and no put is issued.  Stated for the calls
\* in which no other store call fails.
C6_UpdateFailure500 ==
  \A p \in Procs :
    (/\ pc[p] = "done"
     /\ Failed(calls[p], "update_item")
     /\ ~Failed(calls[p], "put_item")) =>
      /\ result[p].statusCode = 500
      /\ ~Issued(calls[p], "put_item")

\* C7: a body that is not valid JSON, and a failed put of a new session,
\* are answered 500 with the message 'Failed to manage session: ' followed
\* by the error's text.
C7_Failure500 ==
  /\ [][\A p \in Procs :
          Begin(p, [has_body |-> TRUE, body |-> JStr("not json")]) =>
            /\ pc'[p] = "done"
            /\ result'[p].statusCode = 500
            /\ result'[p].body =
                 [message |->
                    "Failed to manage session: Expecting value: line 1 column 1 (char 0)"]]_vars
  /\ [](\A p \in Procs :
          Failed(calls[p], "put_item") =>
            /\ pc[p] = "done"
            /\ result[p].statusCode = 500
            /\ result[p].body =
                 [message |-> "Failed to manage session: " \o
                                (IF uid[p].t = "str" THEN PutError ELSE PutParamError)])

C7_Witness ==
  \E p, q \in Procs :
    /\ pc[p] = "done" /\ calls[p] = <<>>
    /\ result[p].statusCode = 500
    /\ result[p].body.message =
         "Failed to manage session: Expecting value: line 1 column 1 (char 0)"
    /\ pc[q] = "done" /\ Failed(calls[q], "put_item") /\ uid[q] = JStr("u1")
    /\ result[q].statusCode = 500

Rank(c) ==
  CASE c = "idle" -> 0 [] c = "scan" -> 1 [] c = "update" -> 2
    [] c = "put" -> 3 [] c = "done" -> 4 [] OTHER -> 5

ThreeShapes(r) ==
  \/ r.statusCode = 400 /\ DOMAIN r.body = {"message"}
  \/ r.statusCode = 500 /\ DOMAIN r.body = {"message"}
  \/ r.statusCode = 200 /\ DOMAIN r.body = {"sessionId", "message", "isNewSession"}

\* C8: whatever the event and whichever store calls fail, an invocation
\* never lets an exception out, always has a next step until it has
\* returned, moves forward with every step, and returns one of the three
\* shapes: 400 {message}, 500 {message}, 200 {sessionId, message,
\* isNewSession}.
C8_ThreeShapes ==
  /\ [](\A p \in Procs :
          /\ pc[p] \in {"idle", "scan", "update", "put", "done"}
          /\ Running(p) => ENABLED (Scan(p) \/ Update(p) \/ Put(p))
          /\ pc[p] = "done" => ThreeShapes(result[p])
          /\ pc[p] # "done" => result[p] = NoResult)
  /\ [][\A p \in Procs :
          pc'[p] # pc[p] => (Rank(pc'[p]) > Rank(pc[p]) \/ pc[p] = "done")]_vars

C8_Witness ==
  \E p, q \in Procs :
    /\ pc[p] = "done" /\ result[p].statusCode = 500
    /\ Failed(calls[p], "scan") /\ Failed(calls[p], "put_item")
    /\ pc[q] = "done" /\ result[q].statusCode = 200
    /\ result[q].body.isNewSession = TRUE
    /\ FaultFree(calls[q])

\* The calls of an invocation that scanned, found nothing and put.
CleanCreate == <<Call("scan", "ok", 0), Call("put_item", "ok", 0)>>

\* C15: two interleaved invocations for the same uid that both scanned
\* without finding a session and both put both return 200 with isNewSession
\* true, and when their ids differ and no other invocation has put, the
\* table holds both their records under that account.
C15_BothCreate ==
  \A p, q \in Procs :
    (/\ p # q
     /\ pc[p] = "done" /\ pc[q] = "done"
     /\ uid[p] = uid[q]
     /\ calls[p] = CleanCreate /\ calls[q] = CleanCreate) =>
      /\ result[p].statusCode = 200 /\ result[p].body.isNewSession = TRUE
      /\ result[q].statusCode = 200 /\ result[q].body.isNewSession = TRUE
      /\ (/\ result[p].body.sessionId # result[q].body.sessionId
          /\ \A r \in Procs \ {p, q} : ~Issued(calls[r], "put_item")) =>
           {result[p].body.sessionId, result[q].body.sessionId}
             \subseteq SessionsOf(store, uid[p].v)

C15_Witness ==
  \E p, q \in Procs :
    /\ p # q
    /\ pc[p] = "done" /\ pc[q] = "done"
    /\ uid[p] = JStr("u1") /\ uid[q] = JStr("u1")
    /\ calls[p] = CleanCreate /\ calls[q] = CleanCreate
    /\ result[p].body.isNewSession = TRUE /\ result[q].body.isNewSession = TRUE
    /\ result[p].body.sessionId # result[q].body.sessionId
    /\ Len(store) = 2
    /\ \A i \in 1..2 : store[i].associated_account = "u1"

\* No store call of the step fails.
NoFault == \A p \in Procs : FaultFree(calls'[p])

\* Invocations one at a time, every store call succeeding and every
\* generated id new to the table.
CleanBegin(p, e) == SeqBegin(p, e) /\ NoFault
CleanScan(p) == Scan(p) /\ NoFault
CleanUpdate(p) == Update(p) /\ NoFault
CleanPut(p) == Put(p) /\ NoFault /\ session_id[p] \notin Keys(store)

CleanSeqNext ==
  \/ \E p \in Procs : \E e \in Events : CleanBegin(p, e)
  \/ \E p \in Procs : CleanScan(p)
  \/ \E p \in Procs : CleanUpdate(p)
  \/ \E p \in Procs : CleanPut(p)
  \/ \E p \in Procs : Return(p)
  \/ Tick

CleanSeqSpec == Init /\ [][CleanSeqNext]_vars

\* C16: in a run of invocations one at a time in which no store call
\* fails, from the empty table, the table never holds two items with the
\* same associated_account.  Checked over the runs most favourable to the
\* claim, in which no generated id is a key of the table.
C16_AtMostOnePerAccount ==
  \A i, j \in 1..Len(store) :
    store[i].associated_account = store[j].associated_account => i = j

\* C17: an item of the table is in the table after every step, under its
\* key, with the created_at and the associated_account it had.
C17_RecordsKept ==
  [][\A i \in 1..Len(store) : \E j \in 1..Len(store') :
       /\ store'[j].session_id = store[i].session_id
       /\ store'[j].created_at = store[i].created_at
       /\ store'[j].associated_account = store[i].associated_account]_vars

\* C18: the clock never goes back, and a refresh (update_item) never lowers
\* the expiration of the item it writes.
C18_ExpirationNeverDecreases ==
  [][/\ clock' >= clock
     /\ \A p \in Procs :
          (pc[p] = "update" /\ pc'[p] = "done") =>
            \A i \in 1..Len(store) : \A j \in 1..Len(store') :
              store'[j].session_id = store[i].session_id =>
                store'[j].expiration >= store[i].expiration]_vars

\* C19: a step of an invocation for uid u, on the refresh path and on the
\* creation path, leaves every item of another account in the table as it
\* was.
C19_OtherAccountsUntouched ==
  [][\A p \in Procs :
       (Running(p) /\ pc'[p] # pc[p]) =>
         \A i \in 1..Len(store) :
           store[i].associated_account # uid[p].v =>
             \E j \in 1..Len(store') : store'[j] = store[i]]_vars

(* ========================= properties of authorize ====================== *)
\* C9: when the Authorize function answers statusCode 200 with the body
\* {"authorized": false}, authorize raises an error with status 401 and the
\* default unauthorized message.
C9_Denied401 ==
  (/\ upc = "done"
   /\ remote = [kind |-> "envelope",
                envelope |-> [statusCode |-> JInt(200),
                              body |-> JStr("{\"authorized\": false}")]]) =>
    /\ outcome.kind = "LambdaError"
    /\ outcome.status = JInt(401)
    /\ outcome.message = JStr("ACS: Unauthorized")

\* Inner bodies that decode to an object, those whose `authorized` is
\* truthy, and the message of those that carry one.
ObjectBodies == AuthBodies \ {"[]", "not json"}
TruthyBodies ==
  { "{\"authorized\": true}", "{\"authorized\": true, \"message\": \"ok\"}",
    "{\"authorized\": 1}", "{\"authorized\": \"yes\"}" }
BodyMessage(b) ==
  CASE b = "{\"authorized\": true, \"message\": \"ok\"}" -> JStr("ok")
    [] b = "{\"authorized\": false, \"message\": \"Session expired\"}" -> JStr("Session expired")
    [] b = "{\"message\": \"Forbidden\"}" -> JStr("Forbidden")
    [] OTHER -> JStr("ACS: Unauthorized")

\* C10: for a response whose inner body decodes to an object (an absent
\* body counts as {}), authorize returns normally exactly when statusCode is
\* 200 and `authorized` is truthy; otherwise it raises an error whose status
\* is the response's statusCode (401 when it has none) and whose message is
\* the body's message (the default when it has none).
C10_AuthorizeDecision ==
  (upc = "done" /\ remote.kind \in {"envelope", "empty"}) =>
    LET e == remote.envelope
        b == IF "body" \in DOMAIN e THEN e.body.v ELSE "{}"
        ok == /\ "statusCode" \in DOMAIN e
              /\ e.statusCode = JInt(200)
              /\ b \in TruthyBodies
    IN  b \in ObjectBodies =>
          /\ ok => outcome.kind = "returned"
          /\ ~ok =>
               /\ outcome.kind = "LambdaError"
               /\ outcome.status =
                    (IF "statusCode" \in DOMAIN e THEN e.statusCode ELSE JInt(401))
               /\ outcome.message = BodyMessage(b)

C10_Witness ==
  /\ upc = "done"
  /\ remote = [kind |-> "envelope",
               envelope |-> [body |-> JStr("{\"authorized\": true, \"message\": \"ok\"}")]]
  /\ outcome = [kind |-> "LambdaError", status |-> JInt(401), message |-> JStr("ok")]

\* The errors invoke_lambda raises for a function name.
InvokeErrors(fn) == { ClientErrorRaised(fn), InvalidJsonRaised(fn), UnexpectedRaised(fn) }

\* C11: a denial by authorize (statusCode other than 200, or `authorized`
\* not truthy, in a response whose inner body decodes to an object) is
\* raised as the authorization error kind, which is not the kind of the
\* errors invoke_lambda raises.
C11_DenialKind ==
  (upc = "done" /\ remote.kind \in {"envelope", "empty"}) =>
    LET e == remote.envelope
        b == IF "body" \in DOMAIN e THEN e.body.v ELSE "{}"
        denied == \/ Get(e, "statusCode") # JInt(200)
                  \/ b \notin TruthyBodies
    IN  (b \in ObjectBodies /\ denied) =>
          /\ outcome.kind = AuthorizationErrorKind
          /\ \A fn \in FunctionNames : \A err \in InvokeErrors(fn) :
               outcome.kind # err.kind

(* ======================= properties of invoke_lambda ==================== *)
InvokeStages == {"invoke", "parse_invoke"}
CheckStages == {"check", "parse_check"}
InvokeFailures == {"unserializable", "client_error", "unexpected", "not_json"}
CalledName == IF upc \in {"invoke", "check", "done"} THEN "Authorize" ELSE "ParseEvent"

\* C12: a call of invoke_lambda that fails (payload that cannot be
\* serialized, client error of the transport, payload that is not JSON, any
\* other exception) ends in a LambdaError with status 500, and a call that
\* does not fail raises nothing and hands its value to the caller.
C12_InvokeAlways500 ==
  /\ (upc \notin InvokeStages /\ remote.kind \in InvokeFailures) =>
       /\ outcome.kind = "LambdaError"
       /\ outcome.status = JInt(500)
       /\ outcome \in InvokeErrors(CalledName)
       /\ response = EmptyDict
  /\ upc \in CheckStages =>
       /\ remote.kind \notin InvokeFailures
       /\ outcome = NoOutcome

C12_Witness ==
  /\ upc = "parse_done"
  /\ remote.kind = "unserializable"
  /\ outcome = LambdaError(JInt(500),
                           JStr("An unexpected error occurred during Lambda invocation."))

\* C13: a payload that is not empty and not JSON makes invoke_lambda raise
\* LambdaError with status 500 and a message that has the called function's
\* name in it; an empty payload makes it return the empty mapping.
C13_NotJsonAndEmpty ==
  /\ (upc \notin InvokeStages /\ remote.kind = "not_json") =>
       /\ outcome.kind = "LambdaError"
       /\ outcome.status = JInt(500)
       /\ outcome.message = JStr("Invalid JSON response from " \o CalledName \o ".")
  /\ (upc \notin InvokeStages /\ remote.kind = "empty") =>
       /\ response = EmptyDict
       /\ outcome \notin InvokeErrors(CalledName)
       /\ upc \in CheckStages => outcome = NoOutcome

C13_Witness ==
  /\ upc = "done"
  /\ remote.kind = "not_json"
  /\ outcome = LambdaError(JInt(500), JStr("Invalid JSON response from Authorize."))

(* ======================== properties of parse_event ===================== *)
\* C14: for an envelope with statusCode 200 parse_event returns the decoded
\* inner body; for every other envelope (the empty mapping included) it
\* raises a LambdaError with the envelope's statusCode, or 500 when the
\* envelope has none.
C14_ParseEvent200 ==
  (upc = "parse_done" /\ remote.kind \in {"envelope", "empty"}) =>
    LET e == remote.envelope
        b == IF "body" \in DOMAIN e THEN e.body.v ELSE "{}"
    IN  /\ Get(e, "statusCode") = JInt(200) =>
             /\ outcome.kind = "returned"
             /\ outcome.value.dict = JsonLoads(b).dict
        /\ Get(e, "statusCode") # JInt(200) =>
             /\ outcome.kind = "LambdaError"
             /\ outcome.status = GetOr(e, "statusCode", JInt(500))

====
